---- MODULE Spec2Model ----
(***************************************************************************)
(* MAScontrol (src/mas.py): the session loop of MASTCPThread, the          *)
(* connection handler MASTCPHandler it drives, and the part of MASView     *)
(* (the UI thread) that starts the thread, receives its signals, answers   *)
(* the reconnect dialog and shuts the thread down.                         *)
(*                                                                         *)
(* Two threads take steps: the loop thread (the Loop actions) and the UI   *)
(* thread (the UI and User actions).  A loop-thread step is one access     *)
(* to state shared with the UI (running, retry_dialog_open, the queue, the *)
(* signal channel) together with the thread-private work around it; a      *)
(* whole send_command exchange is private to the loop thread and is one    *)
(* step.  The instrument and the network are the environment: whether a    *)
(* request is answered, when the answer arrives and whether the socket     *)
(* fails are chosen with \E.                                               *)
(***************************************************************************)
EXTENDS Integers, Sequences, FiniteSets, TLC

\* ------------------------------------------------------------------ bounds
\* Commands the operator puts on the queue in one run.
MaxCmds == 2
\* Status polls the instrument answers in one run.
MaxPolls == 2
\* Times the operator answers the reconnect dialog with Retry.
MaxRetries == 1
\* Responses the instrument has sent that the program has not yet read.
MaxPending == 3

\* Characters in a message given to the codec.
MaxLen == 3
\* The last reading of the clock, in ticks of half a second.
MaxTime == 2
\* Calls of add_point, and those of them that add a masked sample.
MaxPoints == 5
MaxMasked == 1
\* Calls of begin_logging that start a session.
MaxSessions == 1

\* ------------------------------------------------------- program constants
\* MASTCPHandler.timeout_limit
TimeoutLimit == 3
\* History.history_buffer, the block the arrays grow and shrink by: 1000
\* points in the program, 2 here.
history_buffer == 2

VARIABLES
    pc,                 \* position of the loop thread (MASTCPThread.run)
    running,            \* MASTCPThread.running
    retry_dialog_open,  \* MASTCPThread.retry_dialog_open
    exc,                \* exception propagating out of run_connection
    elapsed,            \* time.time()-start_time inside retry_connection
    command,            \* the command run_connection took off the queue
    response,           \* poll_status: tokens returned for 'AS'
    sock,               \* the handler's socket: none, open, created, closed
    unread,             \* responses the instrument sent that were not read
    command_table,      \* MASTCPHandler.command_table (load_cfg)
    queue,              \* MASView.command_queue
    chan,               \* queued signal deliveries, loop thread -> UI thread
    slots,              \* signals of the thread the UI has connected
    uipc,               \* position of the UI thread
    history,            \* samples the handlers added to spinning_history
    retries,            \* Retry answers given so far
    polls,              \* status signals emitted so far
    \* history variables, written but never read by the program's actions
    ack,                \* none, failed, emitted, cleared (since the failure)
    emits,              \* reconnect signals emitted since the last open
    cause,              \* cause text of the last reconnect signal
    recov,              \* none, probing, ok, expired (in-place recovery)
    sockErr,            \* the last socket operation raised socket.error
    escErr,             \* a socket.error was raised outside test_connection
    aborted,            \* the operator answered Abort
    nEmitted,           \* signals emitted so far (delivered or not)
    delivered,          \* ids of the signals delivered to a handler
    nEnq,               \* commands put on the queue so far
    deq,                \* ids of the commands taken off the queue
    wire                \* ids of the commands written to the socket

sessionVars == <<pc, running, retry_dialog_open, exc, elapsed, command, response,
          sock, unread, command_table, queue, chan, slots, uipc, history,
          retries, polls, ack, emits, cause, recov, sockErr, escErr, aborted,
          nEmitted, delivered, nEnq, deq, wire>>

\* One MASTCPHandler.send_command call seen byte by byte.
VARIABLES
    hpc,                \* position inside send_command: idle, recv
    call,               \* the call in progress or last made: code, args
    sent,               \* bytes this call wrote to the socket
    received,           \* send_command's local received
    waited,             \* time.time()-start_time inside send_command
    recvStart,          \* waited when the last socket.recv was entered
    inflight,           \* bytes the instrument will still deliver
    peer,               \* the other end of the socket: open, closed
    result,             \* how the call ended: kind and tokens
    tested,             \* what test_connection returned, if it made the call
    codec               \* a message with its encoding and its decoding

handlerVars == <<hpc, call, sent, received, waited, recvStart, inflight,
                 peer, result, tested, codec>>

\* The History object MASView.spinning_history, its log files and the clock.
VARIABLES
    times,              \* History.times, zero where nothing was stored
    values,             \* History.values: data and mask of every entry
    filled_points,      \* History.filled_points
    logging,            \* History.logging
    log_start,          \* History.log_start
    log_end,            \* History.log_end
    can_save,           \* History.can_save
    history_length,     \* History.history_length
    files,              \* the files of log_dir: name -> lines
    now,                \* what datetime.now() returns
    \* history variables, written but never read by the program's actions
    raised,             \* the History method last called raised an exception
    flushed,            \* write_log has completed since begin_logging
    counts              \* calls made so far: points, masked, sessions

historyVars == <<times, values, filled_points, logging, log_start, log_end,
                 can_save, history_length, files, now, raised, flushed,
                 counts>>

\* MASTCPThread.run_offline, which the loop thread runs in place of
\* run_connection when the program was started offline.
VARIABLES
    n                   \* run_offline's loop variable

offlineVars == <<n>>

\* What the plot reads of the History.
VARIABLES
    active              \* the last call of History.active_range: the
                        \* argument and what it returned

readVars == <<active>>

\* What a reader of the log expects of a logging session; no action of the
\* program reads it.
VARIABLES
    session,            \* the samples add_point stored since begin_logging,
                        \* as the lines write_points makes of them
    method              \* the History method called last, "" before any

logVars == <<session, method>>

\* add_point as the two threads of the offline program run it, a statement
\* at a time.
VARIABLES
    adding,             \* for each thread its call of add_point: the
                        \* statement it is at, the arguments, and the
                        \* filled_points it loaded for the increment
    since               \* filled_points after the last reallocation and the
                        \* calls of add_point that returned since; no action
                        \* of the program reads it

raceVars == <<adding, since>>

\* The variables the session actions leave alone.
nonSession ==
    <<handlerVars, historyVars, offlineVars, readVars, logVars, raceVars>>
\* The variables the handler actions leave alone.
nonHandler ==
    <<sessionVars, historyVars, offlineVars, readVars, logVars, raceVars>>
\* The variables the History methods leave alone.
nonLog == <<sessionVars, handlerVars, offlineVars, readVars, raceVars>>
\* The variables the History actions leave alone.
nonHistory == <<nonLog, logVars>>

vars == <<sessionVars, handlerVars, historyVars, offlineVars, readVars,
          logVars, raceVars>>

\* No send_command call made yet.
NoCall == [code |-> "none", args |-> <<>>, probe |-> FALSE]
NoResult == [kind |-> "none", tokens |-> <<>>]
NoCodec == [message |-> <<>>, encoded |-> <<>>, decoded |-> <<>>]

\* The handler before any call.
HandlerIdle ==
    /\ hpc = "idle"
    /\ call = NoCall
    /\ sent = <<>>
    /\ received = <<>>
    /\ waited = 0
    /\ recvStart = 0
    /\ inflight = <<>>
    /\ peer = "open"
    /\ result = NoResult
    /\ tested = "none"
    /\ codec = NoCodec

\* History.allocate_arrays lines 297-308: zeros, nothing masked.
allocate_arrays(points) ==
    [times |-> [i \in 1..points |-> 0],
     values |-> [i \in 1..points |-> [data |-> 0, mask |-> FALSE]]]

NoCounts == [points |-> 0, masked |-> 0, sessions |-> 0]

\* History.__init__ lines 277-295, but for history_length and can_save,
\* which come from the configuration and the log directory.
HistoryNew ==
    /\ times = allocate_arrays(history_buffer * 2).times
    /\ values = allocate_arrays(history_buffer * 2).values
    /\ filled_points = 0
    /\ logging = FALSE
    /\ now = 1
    /\ log_start = 1
    /\ log_end = 1
    /\ files = {}
    /\ raised = FALSE
    /\ flushed = FALSE
    /\ counts = NoCounts

\* active_range not yet called.
NoActive == [time_range |-> -1, none |-> TRUE, times |-> <<>>, values |-> <<>>]

\* The threads that call add_point in the offline program: the loop thread
\* (run_offline line 857) and the UI thread (got_status line 65).
Threads == {"loop", "ui"}

\* A thread that is not in add_point.
NotAdding ==
    [at |-> "idle", time |-> 0, value |-> [data |-> 0, mask |-> TRUE],
     loaded |-> 0]

\* run_offline not yet called, and neither active_range, begin_logging nor
\* add_point.
OfflineIdle ==
    /\ n = 0
    /\ active = NoActive
    /\ session = <<>>
    /\ method = ""
    /\ adding = [t \in Threads |-> NotAdding]
    /\ since = [filled |-> 0, returned |-> 0]

\* The History the session and the handler specifications leave untouched.
HistoryIdle ==
    /\ HistoryNew
    /\ can_save = TRUE
    /\ history_length = 1

\* ------------------------------------------------------------ command table
\* cfgmas.dat as load_cfg reads it: code -> number of arguments.  The file
\* is an input of the program; the second table declares BP with two
\* arguments, so the ('BP', (val,)) the UI sends does not match it.
CfgComplete == [MA |-> 0, AS |-> 0, VD |-> 0, BP |-> 1]
CfgMismatch == [MA |-> 0, AS |-> 0, VD |-> 0, BP |-> 2]
CfgFiles == {CfgComplete, CfgMismatch}

\* The commands the UI puts on the queue.  set_bearing puts
\* ('BP', (str(val),)); set_drive, set_spin and mode_clicked put commands
\* the loop treats in the same way (validated, written, response dropped),
\* so BP stands for them all.
UICommands == {[code |-> "BP", nargs |-> 1]}

\* Mutant of Accepted: the argument count is not compared.
AcceptedAnyArity(table, code, nargs) == code \in DOMAIN table

\* send_command's validation of a command against the table.
Accepted(table, code, nargs) ==
    /\ code \in DOMAIN table
    /\ table[code] = nargs

\* ------------------------------------------------------------------- codec
\* The decoded tokens of one response of the instrument, by the request it
\* answers: 'MA' is answered OK, 'AS' by a tag and four readings, 'VD' by
\* the set point.
RespTokens(k) ==
    CASE k = "MA" -> <<"OK">>
      [] k = "AS" -> <<"AS", "spin", "drive", "bearing", "sense">>
      [] k = "VD" -> <<"set">>
      [] OTHER -> <<"ack">>

RECURSIVE Tokens(_)
\* decode_message on a buffer holding the responses msgs one after another:
\* split() yields the tokens of all of them.
Tokens(msgs) ==
    IF msgs = <<>> THEN <<>>
    ELSE RespTokens(Head(msgs)) \o Tokens(Tail(msgs))

\* --------------------------------------------------------------- connection
\* The outcomes of one handler.send_command(k) that passed validation.  The
\* request is written; the instrument answers it or stays silent; by the
\* time the receive loop gives up, the first a of the responses not yet read
\* have arrived.  a = 0: recv raises socket.timeout.  a > 0: the first recv
\* returns what has arrived, the buffer ends with the terminator and the
\* loop breaks.  The socket may also fail with a socket.error.
\* live = FALSE: the instrument no longer answers (the run's bound).
SendOutcomes(k, live) ==
    LET flights == {unread} \cup
                   (IF live /\ Len(unread) < MaxPending
                    THEN {Append(unread, k)} ELSE {})
    IN  {[res |-> "error", tokens |-> <<>>, unread |-> unread]} \cup
        UNION {{IF a = 0
                THEN [res |-> "timeout", tokens |-> <<>>, unread |-> fl]
                ELSE [res |-> "ok", tokens |-> Tokens(SubSeq(fl, 1, a)),
                      unread |-> SubSeq(fl, a + 1, Len(fl))]
                : a \in 0..(IF live THEN Len(fl) ELSE 0)} : fl \in flights}

\* The outcomes of the bare handler.socket.recv(128) of retry_connection.
RecvOutcomes ==
    {[res |-> "error", unread |-> unread]} \cup
    {IF a = 0 THEN [res |-> "timeout", unread |-> unread]
     ELSE [res |-> "ok", unread |-> SubSeq(unread, a + 1, Len(unread))]
     : a \in 0..Len(unread)}

\* ---------------------------------------------------------------- signals
\* QThread.emit: a signal is queued for the UI thread if a slot is connected
\* to it at the time of the emit, and goes nowhere otherwise.
Emit(sig, ev) ==
    /\ nEmitted' = nEmitted + 1
    /\ chan' = IF sig \in slots
               THEN Append(chan, [ev EXCEPT !.id = nEmitted + 1])
               ELSE chan

\* No command in hand.
NoCommand == [id |-> 0, code |-> "none", nargs |-> 0]

StatusEvent == [id |-> 0, kind |-> "got_status", cause |-> "none"]
ReconnectEvent(c) == [id |-> 0, kind |-> "reconnect", cause |-> c]

\* Everything of the session but the command table, before the thread starts.
SessionStart ==
    /\ pc = "unstarted"
    /\ running = TRUE
    /\ retry_dialog_open = FALSE
    /\ exc = "none"
    /\ elapsed = 0
    /\ command = NoCommand
    /\ response = <<>>
    /\ sock = "none"
    /\ unread = <<>>
    /\ queue = <<>>
    /\ chan = <<>>
    /\ slots = {}
    /\ uipc = "start"
    /\ history = <<>>
    /\ retries = 0
    /\ polls = 0
    /\ ack = "none"
    /\ emits = 0
    /\ cause = "none"
    /\ recov = "none"
    /\ sockErr = FALSE
    /\ escErr = FALSE
    /\ aborted = FALSE
    /\ nEmitted = 0
    /\ delivered = <<>>
    /\ nEnq = 0
    /\ deq = <<>>
    /\ wire = <<>>

Init ==
    /\ SessionStart
    /\ command_table \in CfgFiles
    /\ HandlerIdle
    /\ HistoryIdle
    /\ OfflineIdle

\* ------------------------------------------------------------ session loop
\* Mutant of RetryCatches: the clause written as except socket.error.
RetryCatchesSocketError == {"timeout", "error"}

\* run_connection line 792: the exceptions its except clause catches.
RetryCatches == {"timeout"}

\* Mutant of CauseOf: the socket.error clause first, which also catches
\* socket.timeout, its subtype.
CauseOfErrorFirst(e) == "Connection"

\* run lines 760-767: the cause text emitted for the exception caught; the
\* socket.timeout clause stands before the socket.error clause.
CauseOf(e) == IF e = "timeout" THEN "Timeout" ELSE "Connection"

\* Mutant of FlagOnFailure: the flag is not raised.
FlagOnFailureOff == FALSE

\* run lines 761 and 765: the value given to retry_dialog_open.
FlagOnFailure == TRUE

\* Mutant of WaitCondition: the loop does not wait for the flag.
WaitConditionNever == FALSE

\* run line 768: the condition of the wait loop.
WaitCondition == retry_dialog_open

\* Mutant of AfterGet: the command is read and left on the queue.
AfterGetKeep(q) == q

\* run_connection line 789: the queue after queue.get().
AfterGet(q) == Tail(q)

\* poll_status lines 811-812: response.append(spin_set[0]); response[1:].
StatusFields(resp, spin_set) == Tail(Append(resp, spin_set[1]))

\* The way out of the with block of run_connection with exception e (none:
\* the loop ended because running is false).  MASTCPHandler.__exit__ lines
\* 883-886 closes the socket; then run lines 758-768: a normal return goes
\* on to the wait loop, socket.timeout and socket.error are caught, and
\* anything else ends the thread.
Leave(e) ==
    /\ sock' = "closed"
    /\ exc' = e
    /\ pc' = CASE e = "none" -> "wait"
               [] e \in {"timeout", "error"} -> "except"
               [] OTHER -> "done"

\* An exception e raised by a command or a poll inside the try of
\* run_connection (lines 783-794): a caught one starts retry_connection, any
\* other leaves the with block.
Raise(e) ==
    /\ IF e \in RetryCatches
       THEN /\ pc' = "retry"
            /\ exc' = e
            /\ sock' = sock
            /\ recov' = "probing"
            /\ ack' = ack
       ELSE /\ Leave(e)
            /\ recov' = recov
            /\ ack' = IF e \in {"timeout", "error"} THEN "failed" ELSE ack
    /\ elapsed' = 0
    /\ sockErr' = (sockErr \/ e = "error")
    /\ escErr' = (escErr \/ e = "error")

NoRaise == UNCHANGED <<exc, sock, elapsed, recov, ack, sockErr, escErr>>

\* run line 753: while self.running.
LoopRunCheck ==
    /\ pc = "run_top"
    /\ pc' = IF running THEN "open" ELSE "done"
    /\ UNCHANGED <<running, retry_dialog_open, exc, elapsed, command, response,
                   sock, unread, command_table, queue, chan, slots, uipc,
                   history, retries, polls, ack, emits, cause, recov, sockErr,
                   escErr, aborted, nEmitted, delivered, nEnq, deq, wire>>
    /\ UNCHANGED nonSession

\* run_connection line 781, MASTCPHandler.__init__ lines 873-881: the socket
\* is created and connect() succeeds, times out or is refused.  When connect
\* raises, the with block is never entered and __exit__ never runs: the
\* socket created on line 879 is not closed (the traceback of the exception
\* that run() caught keeps the handler and its socket alive).
LoopOpen ==
    /\ pc = "open"
    /\ \E r \in {"ok", "timeout", "error"} :
        /\ exc' = IF r = "ok" THEN "none" ELSE r
        /\ pc' = IF r = "ok" THEN "active_top" ELSE "except"
        /\ ack' = IF r = "ok" THEN "none" ELSE "failed"
        /\ sock' = IF r = "ok" THEN "open" ELSE "created"
        /\ sockErr' = (r = "error")
        /\ escErr' = (r = "error")
    /\ unread' = <<>>
    /\ emits' = 0
    /\ cause' = "none"
    /\ recov' = "none"
    /\ UNCHANGED <<running, retry_dialog_open, elapsed, command, response,
                   command_table, queue, chan, slots, uipc, history, retries,
                   polls, aborted, nEmitted, delivered, nEnq, deq, wire>>
    /\ UNCHANGED nonSession

\* run_connection line 782: while self.running.
LoopActiveCheck ==
    /\ pc = "active_top"
    /\ IF running
       THEN pc' = "cycle" /\ UNCHANGED <<exc, sock>>
       ELSE Leave("none")
    /\ UNCHANGED <<running, retry_dialog_open, elapsed, command, response,
                   unread, command_table, queue, chan, slots, uipc,
                   history, retries, polls, ack, emits, cause, recov, sockErr,
                   escErr, aborted, nEmitted, delivered, nEnq, deq, wire>>
    /\ UNCHANGED nonSession

\* run_connection lines 784 and 789: queue.empty() selects the poll; else
\* queue.get() takes the oldest command (the loop is the only consumer).
LoopCycle ==
    /\ pc = "cycle"
    /\ IF queue = <<>>
       THEN /\ pc' = "poll_as"
            /\ UNCHANGED <<queue, command, deq>>
       ELSE /\ pc' = "send"
            /\ command' = Head(queue)
            /\ queue' = AfterGet(queue)
            /\ deq' = Append(deq, Head(queue).id)
    /\ UNCHANGED <<running, retry_dialog_open, exc, elapsed, response, sock,
                   unread, command_table, chan, slots, uipc, history, retries,
                   polls, ack, emits, cause, recov, sockErr, escErr, aborted,
                   nEmitted, delivered, nEnq, wire>>
    /\ UNCHANGED nonSession

\* run_connection lines 790-791, send_command lines 997-1022: a command the
\* table rejects raises ValueError before anything is written; an accepted
\* one is written and its response awaited.
LoopSend ==
    /\ pc = "send"
    /\ IF ~Accepted(command_table, command.code, command.nargs)
       THEN /\ Raise("other")
            /\ UNCHANGED <<unread, wire>>
       ELSE \E o \in SendOutcomes("CM", TRUE) :
            /\ wire' = Append(wire, command.id)
            /\ unread' = o.unread
            /\ IF o.res = "ok"
               THEN pc' = "active_top" /\ NoRaise
               ELSE Raise(o.res)
    /\ command' = NoCommand
    /\ UNCHANGED <<running, retry_dialog_open, response,
                   command_table, queue, chan, slots, uipc, history, retries,
                   polls, emits, cause, aborted, nEmitted, delivered, nEnq,
                   deq>>
    /\ UNCHANGED nonSession

\* poll_status lines 807-808: send_command('AS').
LoopPollAS ==
    /\ pc = "poll_as"
    /\ \E o \in SendOutcomes("AS", polls < MaxPolls) :
        /\ unread' = o.unread
        /\ IF o.res = "ok"
           THEN pc' = "poll_vd" /\ response' = o.tokens /\ NoRaise
           ELSE Raise(o.res) /\ response' = response
    /\ UNCHANGED <<running, retry_dialog_open, command, command_table,
                   queue, chan, slots, uipc, history, retries, polls, emits,
                   cause, aborted, nEmitted, delivered, nEnq, deq, wire>>
    /\ UNCHANGED nonSession

\* poll_status lines 809-813, run_connection lines 786-787:
\* send_command('VD'), the MASStatus of five fields (a TypeError with any
\* other number of fields), and the got_status signal.
LoopPollVD ==
    /\ pc = "poll_vd"
    /\ \E o \in SendOutcomes("VD", TRUE) :
        /\ unread' = o.unread
        /\ IF o.res # "ok"
           THEN Raise(o.res) /\ UNCHANGED <<chan, nEmitted, polls>>
           ELSE IF Len(StatusFields(response, o.tokens)) # 5
           THEN Raise("other") /\ UNCHANGED <<chan, nEmitted, polls>>
           ELSE /\ Emit("got_status", StatusEvent)
                /\ polls' = polls + 1
                /\ pc' = "active_top"
                /\ NoRaise
    /\ response' = <<>>
    /\ UNCHANGED <<running, retry_dialog_open, command,
                   command_table, queue, slots, uipc, history, retries, emits,
                   cause, aborted, delivered, nEnq, deq, wire>>
    /\ UNCHANGED nonSession

\* retry_connection lines 828-829 and 833, test_connection lines 1065-1070:
\* inside the window one probe; a probe that does not return exactly ['OK']
\* (other tokens, a timeout, a socket.error, both caught) is followed by
\* msleep(100).  A probe and its msleep are counted as taking timeout_limit,
\* the time of a probe that times out, so the window holds four probes.
LoopProbe ==
    /\ pc = "retry"
    /\ elapsed < 4 * TimeoutLimit
    /\ \E o \in SendOutcomes("MA", TRUE) :
        /\ unread' = o.unread
        /\ sockErr' = (o.res = "error")
        /\ IF o.res = "ok" /\ o.tokens = <<"OK">>
           THEN /\ pc' = "drain"
                /\ recov' = "ok"
                /\ elapsed' = 0
           ELSE /\ pc' = "retry"
                /\ recov' = recov
                /\ elapsed' = elapsed + TimeoutLimit
    /\ UNCHANGED <<running, retry_dialog_open, exc, command, response, sock,
                   command_table, queue, chan, slots, uipc, history, retries,
                   polls, ack, emits, cause, escErr, aborted, nEmitted,
                   delivered, nEnq, deq, wire>>
    /\ UNCHANGED nonSession

\* retry_connection line 834 and run_connection lines 793-794: the window
\* is over, retry_connection returns False and the exception caught is
\* raised again.
LoopRetryExpired ==
    /\ pc = "retry"
    /\ ~(elapsed < 4 * TimeoutLimit)
    /\ Leave(exc)
    /\ recov' = "expired"
    /\ ack' = "failed"
    /\ elapsed' = 0
    /\ sockErr' = FALSE
    /\ UNCHANGED <<running, retry_dialog_open, command, response,
                   unread, command_table, queue, chan, slots, uipc, history,
                   retries, polls, emits, cause, escErr, aborted,
                   nEmitted, delivered, nEnq, deq, wire>>
    /\ UNCHANGED nonSession

\* retry_connection lines 830-832: after the probe that returned OK,
\* sleep(timeout_limit) and one socket.recv(128), which blocks until bytes
\* arrive or the socket's timeout passes.  It runs inside the except clause
\* of run_connection, so what it raises leaves the with block.
LoopDrain ==
    /\ pc = "drain"
    /\ \E o \in RecvOutcomes :
        /\ unread' = o.unread
        /\ IF o.res = "ok"
           THEN /\ pc' = "active_top"
                /\ exc' = "none"
                /\ recov' = "none"
                /\ UNCHANGED <<sock, ack, sockErr, escErr>>
           ELSE /\ Leave(o.res)
                /\ recov' = recov
                /\ ack' = "failed"
                /\ sockErr' = (sockErr \/ o.res = "error")
                /\ escErr' = (escErr \/ o.res = "error")
    /\ UNCHANGED <<running, retry_dialog_open, elapsed, command, response,
                   command_table, queue, chan, slots, uipc, history,
                   retries, polls, emits, cause, aborted, nEmitted, delivered,
                   nEnq, deq, wire>>
    /\ UNCHANGED nonSession

\* run lines 761 and 765: self.retry_dialog_open = True.
LoopExcept ==
    /\ pc = "except"
    /\ retry_dialog_open' = FlagOnFailure
    /\ pc' = "emit"
    /\ UNCHANGED <<running, exc, elapsed, command, response, sock, unread,
                   command_table, queue, chan, slots, uipc, history, retries,
                   polls, ack, emits, cause, recov, sockErr, escErr, aborted,
                   nEmitted, delivered, nEnq, deq, wire>>
    /\ UNCHANGED nonSession

\* run lines 762-763 and 766-767: emit reconnect(cause).
LoopEmit ==
    /\ pc = "emit"
    /\ Emit("reconnect", ReconnectEvent(CauseOf(exc)))
    /\ emits' = emits + 1
    /\ cause' = CauseOf(exc)
    /\ ack' = "emitted"
    /\ pc' = "wait"
    /\ UNCHANGED <<running, retry_dialog_open, exc, elapsed, command, response,
                   sock, unread, command_table, queue, slots, uipc, history,
                   retries, polls, recov, sockErr, escErr, aborted, delivered,
                   nEnq, deq, wire>>
    /\ UNCHANGED nonSession

\* run lines 768-769: while self.retry_dialog_open: msleep(100).  A turn of
\* the loop with the flag set changes nothing (a stuttering step); the
\* action is the turn that finds it clear.
LoopWait ==
    /\ pc = "wait"
    /\ ~WaitCondition
    /\ pc' = "run_top"
    /\ UNCHANGED <<running, retry_dialog_open, exc, elapsed, command, response,
                   sock, unread, command_table, queue, chan, slots, uipc,
                   history, retries, polls, ack, emits, cause, recov, sockErr,
                   escErr, aborted, nEmitted, delivered, nEnq, deq, wire>>
    /\ UNCHANGED nonSession

LoopNext ==
    \/ LoopRunCheck \/ LoopOpen \/ LoopActiveCheck \/ LoopCycle \/ LoopSend
    \/ LoopPollAS \/ LoopPollVD \/ LoopProbe \/ LoopRetryExpired
    \/ LoopDrain \/ LoopExcept \/ LoopEmit \/ LoopWait

\* ---------------------------------------------------------------- UI thread
\* Mutant of AbortOrder: the two writes in the other order.
AbortOrderSwapped == <<"retry_dialog_open", "running">>

\* reconnect_message lines 228-229: the two attributes of the thread the
\* Abort branch writes, in the order it writes them.
AbortOrder == <<"running", "retry_dialog_open">>

\* One write of False to an attribute of the thread, from the UI thread.
UIWrite(attr) ==
    IF attr = "running"
    THEN /\ running' = FALSE
         /\ UNCHANGED <<retry_dialog_open, ack>>
    ELSE /\ retry_dialog_open' = FALSE
         /\ ack' = IF ack = "emitted" THEN "cleared" ELSE ack
         /\ UNCHANGED running

\* MASView.__init__ line 51: self.MASThread.start().
UIStart ==
    /\ uipc = "start"
    /\ pc = "unstarted"
    /\ pc' = "run_top"
    /\ uipc' = "connect_status"
    /\ UNCHANGED <<running, retry_dialog_open, exc, elapsed, command, response,
                   sock, unread, command_table, queue, chan, slots, history,
                   retries, polls, ack, emits, cause, recov, sockErr, escErr,
                   aborted, nEmitted, delivered, nEnq, deq, wire>>
    /\ UNCHANGED nonSession

\* MASView.__init__ line 52: connect got_status to self.got_status.
UIConnectStatus ==
    /\ uipc = "connect_status"
    /\ slots' = slots \cup {"got_status"}
    /\ uipc' = "connect_reconnect"
    /\ UNCHANGED <<pc, running, retry_dialog_open, exc, elapsed, command,
                   response, sock, unread, command_table, queue, chan, history,
                   retries, polls, ack, emits, cause, recov, sockErr, escErr,
                   aborted, nEmitted, delivered, nEnq, deq, wire>>
    /\ UNCHANGED nonSession

\* MASView.__init__ line 53: connect reconnect to self.reconnect_message;
\* the constructor returns and the event loop runs.
UIConnectReconnect ==
    /\ uipc = "connect_reconnect"
    /\ slots' = slots \cup {"reconnect"}
    /\ uipc' = "idle"
    /\ UNCHANGED <<pc, running, retry_dialog_open, exc, elapsed, command,
                   response, sock, unread, command_table, queue, chan, history,
                   retries, polls, ack, emits, cause, recov, sockErr, escErr,
                   aborted, nEmitted, delivered, nEnq, deq, wire>>
    /\ UNCHANGED nonSession

\* got_status lines 55-70, run by the event loop (the dialog's own event
\* loop included) for the oldest queued signal: the sample is added to the
\* spinning history.
UIGotStatus ==
    /\ uipc \in {"idle", "dialog"}
    /\ chan # <<>>
    /\ Head(chan).kind = "got_status"
    /\ history' = Append(history, "value")
    /\ delivered' = Append(delivered, Head(chan).id)
    /\ chan' = Tail(chan)
    /\ UNCHANGED <<pc, running, retry_dialog_open, exc, elapsed, command,
                   response, sock, unread, command_table, queue, slots, uipc,
                   retries, polls, ack, emits, cause, recov, sockErr, escErr,
                   aborted, nEmitted, nEnq, deq, wire>>
    /\ UNCHANGED nonSession

\* reconnect_message lines 211-225: a masked sample is added and the modal
\* dialog opens.
UIReconnectMessage ==
    /\ uipc = "idle"
    /\ chan # <<>>
    /\ Head(chan).kind = "reconnect"
    /\ history' = Append(history, "masked")
    /\ delivered' = Append(delivered, Head(chan).id)
    /\ chan' = Tail(chan)
    /\ uipc' = "dialog"
    /\ UNCHANGED <<pc, running, retry_dialog_open, exc, elapsed, command,
                   response, sock, unread, command_table, queue, slots,
                   retries, polls, ack, emits, cause, recov, sockErr, escErr,
                   aborted, nEmitted, nEnq, deq, wire>>
    /\ UNCHANGED nonSession

\* reconnect_message lines 231-247: the operator answers Retry; the controls
\* are reset and retry_dialog_open is cleared.
UIRetry ==
    /\ uipc = "dialog"
    /\ retries < MaxRetries
    /\ retries' = retries + 1
    /\ UIWrite("retry_dialog_open")
    /\ uipc' = "idle"
    /\ UNCHANGED <<pc, exc, elapsed, command, response, sock, unread,
                   command_table, queue, chan, slots, history, polls, emits,
                   cause, recov, sockErr, escErr, aborted, nEmitted, delivered,
                   nEnq, deq, wire>>
    /\ UNCHANGED nonSession

\* reconnect_message lines 227-228: the operator answers Abort; the first
\* of the two writes.
UIAbort ==
    /\ uipc = "dialog"
    /\ aborted' = TRUE
    /\ UIWrite(AbortOrder[1])
    /\ uipc' = "abort_second"
    /\ UNCHANGED <<pc, exc, elapsed, command, response, sock, unread,
                   command_table, queue, chan, slots, history, retries, polls,
                   emits, cause, recov, sockErr, escErr, nEmitted, delivered,
                   nEnq, deq, wire>>
    /\ UNCHANGED nonSession

\* reconnect_message lines 229-230: the second write, then parent.quit():
\* the event loop ends and aboutToQuit calls cleanup.
UIAbortSecond ==
    /\ uipc = "abort_second"
    /\ UIWrite(AbortOrder[2])
    /\ uipc' = "cleanup"
    /\ UNCHANGED <<pc, exc, elapsed, command, response, sock, unread,
                   command_table, queue, chan, slots, history, retries, polls,
                   emits, cause, recov, sockErr, escErr, aborted, nEmitted,
                   delivered, nEnq, deq, wire>>
    /\ UNCHANGED nonSession

\* set_bearing line 200 (and lines 183, 191, 204, 209): the operator acts on
\* a control and the handler puts a command on the queue.
UserCommand ==
    /\ uipc = "idle"
    /\ nEnq < MaxCmds
    /\ \E c \in UICommands :
        queue' = Append(queue, [id |-> nEnq + 1, code |-> c.code,
                                nargs |-> c.nargs])
    /\ nEnq' = nEnq + 1
    /\ UNCHANGED <<pc, running, retry_dialog_open, exc, elapsed, command,
                   response, sock, unread, command_table, chan, slots, uipc,
                   history, retries, polls, ack, emits, cause, recov, sockErr,
                   escErr, aborted, nEmitted, delivered, deq, wire>>
    /\ UNCHANGED nonSession

\* view_gui line 1137, cleanup line 259: the operator closes the window,
\* aboutToQuit calls cleanup and cleanup clears running.
UserQuit ==
    /\ uipc = "idle"
    /\ UIWrite("running")
    /\ uipc' = "cleanup_wait"
    /\ UNCHANGED <<pc, exc, elapsed, command, response, sock, unread,
                   command_table, queue, chan, slots, history, retries, polls,
                   emits, cause, recov, sockErr, escErr, aborted, nEmitted,
                   delivered, nEnq, deq, wire>>
    /\ UNCHANGED nonSession

\* cleanup line 259, reached from the Abort branch: running = False.
UICleanup ==
    /\ uipc = "cleanup"
    /\ UIWrite("running")
    /\ uipc' = "cleanup_wait"
    /\ UNCHANGED <<pc, exc, elapsed, command, response, sock, unread,
                   command_table, queue, chan, slots, history, retries, polls,
                   emits, cause, recov, sockErr, escErr, aborted, nEmitted,
                   delivered, nEnq, deq, wire>>
    /\ UNCHANGED nonSession

\* cleanup lines 260-263: while self.MASThread.isRunning(): pass.  The UI
\* thread spins here, running no handler, until run() has returned.
UICleanupWait ==
    /\ uipc = "cleanup_wait"
    /\ pc = "done"
    /\ uipc' = "exited"
    /\ UNCHANGED <<pc, running, retry_dialog_open, exc, elapsed, command,
                   response, sock, unread, command_table, queue, chan, slots,
                   history, retries, polls, ack, emits, cause, recov, sockErr,
                   escErr, aborted, nEmitted, delivered, nEnq, deq, wire>>
    /\ UNCHANGED nonSession

\* The steps the UI thread takes by itself, once it is where they start.
UICode ==
    \/ UIStart \/ UIConnectStatus \/ UIConnectReconnect \/ UIGotStatus
    \/ UIReconnectMessage \/ UIAbortSecond \/ UICleanup \/ UICleanupWait

\* The operator's choices.
UserNext == UIRetry \/ UIAbort \/ UserCommand \/ UserQuit

Next == LoopNext \/ UICode \/ UserNext

Spec == Init /\ [][Next]_vars

\* The loop thread and the UI thread are both scheduled: a step either can
\* take is eventually taken.  Nothing is assumed of the operator.
FairSpec == Spec /\ WF_vars(LoopNext) /\ WF_vars(UICode)

\* ------------------------------------------------------------------ claims
\* Positions of the loop thread after an exception left run_connection.
Escalated == {"except", "emit", "wait", "run_top", "open", "done"}
\* ... before and after the reconnect signal is emitted.
BeforeEmit == {"except", "emit"}
AfterEmit == {"wait", "run_top", "open", "done"}
\* Positions of the loop thread in Connecting and Active.
ConnectingOrActive ==
    {"open", "active_top", "cycle", "send", "poll_as", "poll_vd", "retry",
     "drain"}

\* C1: once a timeout, a socket error or a failed open has ended a
\* connection, the loop opens no connection before it has emitted the
\* reconnect signal and the UI has, after that, cleared retry_dialog_open.
C1_NoSilentReconnect == pc = "open" => ack \in {"none", "cleared"}

\* C1 witness: the loop is about to reconnect after the UI's answer.
C1_Witness == pc = "open" /\ ack = "cleared" /\ emits = 1

\* C2: once running is false the loop thread reaches the end of run(), also
\* when the directive finds it in the wait loop that follows a reconnect
\* signal.
C2_StopWins == (~running /\ pc = "wait") ~> (pc = "done")

\* C3: once cleanup has cleared running with the loop connecting or active,
\* the thread finishes and cleanup's wait on it returns.
C3_CleanupReturns ==
    (uipc = "cleanup_wait" /\ pc \in ConnectingOrActive) ~> (uipc = "exited")

\* C4: after a probe of the in-place recovery returned OK the loop resumes
\* its cycle on the same connection and no timeout sends it to the
\* reconnect path (a socket.error on the connection aside).
C4_ProbeSuccessResumes == recov = "ok" => (pc = "drain" \/ exc = "error")

\* C5: when the recovery window ends without a successful probe, the
\* timeout that started the recovery leaves run_connection and exactly one
\* reconnect signal, with the timeout cause, is emitted for it.
C5_ExpiryPropagatesTimeout ==
    recov = "expired" =>
        /\ exc = "timeout"
        /\ pc \in Escalated
        /\ pc \in BeforeEmit => emits = 0
        /\ pc \in AfterEmit => emits = 1 /\ cause = "Timeout"

\* C5 witness: the window has expired and the loop waits for the answer.
C5_Witness == recov = "expired" /\ pc = "wait" /\ emits = 1

\* C6 as claimed: a socket.error raised anywhere on the connection, the
\* probes of the in-place recovery included, sends the loop to the
\* reconnect path at once.
C6_AnyErrorEscalates == sockErr => (exc = "error" /\ pc \in Escalated)

\* C6 as amended: a socket.error raised by the open, by a command or a poll
\* of a cycle, or by the read that ends a successful recovery (every place
\* but a test_connection probe) leaves run_connection at once and exactly
\* one reconnect signal with the connection cause is emitted for it; the
\* timeout cause is emitted only for a socket.timeout.
C6_ErrorOutsideProbeEscalates ==
    /\ escErr =>
        /\ exc = "error"
        /\ pc \in Escalated
        /\ pc \in BeforeEmit => emits = 0
        /\ pc \in AfterEmit => emits = 1 /\ cause = "Connection"
    /\ cause = "Timeout" => exc = "timeout"

\* C6 witness: a socket.error ended the read after a successful probe and
\* the connection cause has been emitted.
C6_Witness ==
    escErr /\ recov = "ok" /\ pc = "wait" /\ emits = 1 /\ cause = "Connection"

\* C7: with the loop waiting for the answer to a reconnect signal, or
\* finished, no socket it created is left unclosed.
C7_SocketClosed == pc \in {"wait", "done"} => sock \in {"none", "closed"}

\* C8: once the operator has answered Abort the loop opens no connection:
\* it is still in the wait loop, or at the head of run(), or finished.
C8_AbortNeverReopens == aborted => pc \in {"wait", "run_top", "done"}

\* C8 witness: the loop ended after an Abort.
C8_Witness == aborted /\ pc = "done" /\ ~retry_dialog_open

\* C9: no signal the loop emitted is lost or overtaken: the signals
\* delivered, followed by those queued, are the signals emitted, in order.
C9_NoSignalLost ==
    delivered \o [i \in 1..Len(chan) |-> chan[i].id] =
        [i \in 1..nEmitted |-> i]

\* The commands taken off the queue that send_command has been called
\* with: all but the one in hand.
Handled == IF pc = "send" THEN SubSeq(deq, 1, Len(deq) - 1) ELSE deq

\* C10: the commands taken off the queue followed by those still on it are
\* the commands put on it, each once and in order; and the commands written
\* to the socket are the accepted ones among those taken, each once and in
\* the same order.
C10_CommandsOnceInOrder ==
    /\ deq \o [i \in 1..Len(queue) |-> queue[i].id] = [i \in 1..nEnq |-> i]
    /\ wire = IF Accepted(command_table, "BP", 1) THEN Handled ELSE <<>>

\* C10 witness: two commands were written, in order, around a reconnect.
C10_Witness == wire = <<1, 2>> /\ retries = 1 /\ emits = 0 /\ sock = "open"

\* C11: the loop polls only when it saw the queue empty; a poll sends the
\* status query and then the set-point query; a status event is emitted
\* only by a poll, one per poll; and every poll whose two queries both
\* returned a response emits its status event: a poll ends without one only
\* when a query timed out or failed with a socket error.
C11_PollEmitsOneStatus ==
    [][/\ (pc' = "poll_as" /\ pc # "poll_as") => (pc = "cycle" /\ queue = <<>>)
       /\ (pc' = "poll_vd" /\ pc # "poll_vd") => pc = "poll_as"
       /\ (nEmitted' # nEmitted /\ pc # "emit") =>
              (pc = "poll_vd" /\ pc' = "active_top" /\ nEmitted' = nEmitted + 1)
       /\ (pc = "poll_vd" /\ pc' # "poll_vd") =>
              (nEmitted' = nEmitted + 1 \/ exc' \in {"timeout", "error"})]_vars

\* C29: when retry_connection has returned True and the loop is back at
\* the top of its cycle, no response to a request sent before is left to be
\* read, and so a status query that returns returns the tokens of its own
\* response.
C29_NoStaleResponse ==
    [][/\ (pc = "drain" /\ pc' = "active_top") => unread' = <<>>
       /\ (pc = "poll_as" /\ pc' = "poll_vd") =>
              response' = RespTokens("AS")]_vars

\* C30: when send_command rejects the command the loop took from the queue,
\* nothing is written, the connection stays open and the loop goes on to its
\* next Active cycle.
C30_RejectionRecoverable ==
    [][(/\ pc = "send"
        /\ pc' # "send"
        /\ ~Accepted(command_table, command.code, command.nargs)) =>
          /\ wire' = wire
          /\ unread' = unread
          /\ sock' = sock
          /\ pc' = "active_top"]_vars

\* C31: retry_dialog_open is set only by the loop's except clause, before
\* the reconnect signal is emitted, and the signal is emitted with the flag
\* set; the flag is cleared only by the UI thread in the dialog of a
\* delivered signal, and then the loop is in its wait; while the loop waits
\* with the flag clear nothing sets it again, the loop's next turn can be
\* taken, and it leaves the wait.
C31_AckNeverLost ==
    [][/\ (~retry_dialog_open /\ retry_dialog_open') =>
              (pc = "except" /\ pc' = "emit")
       /\ (pc = "emit" /\ pc' = "wait") =>
              (retry_dialog_open /\ retry_dialog_open')
       /\ (retry_dialog_open /\ ~retry_dialog_open') =>
              (pc = "wait" /\ pc' = "wait"
                  /\ uipc \in {"dialog", "abort_second"})
       /\ (pc = "wait" /\ ~retry_dialog_open) =>
              /\ ~retry_dialog_open'
              /\ ENABLED LoopWait
              /\ pc' # pc => pc' = "run_top"]_vars

\* The operator answered Retry to a delivered notification and the loop
\* has left its wait.
C31_Witness ==
    /\ retries = 1
    /\ ack = "cleared"
    /\ uipc = "idle"
    /\ running
    /\ ~retry_dialog_open
    /\ pc = "run_top"

\* ================================================================ handler
\* MASTCPHandler.send_command, test_connection, encode_message and
\* decode_message with the bytes on the socket and the time spent waiting.
\* Characters and bytes are their codes.

\* The high bit the instrument's protocol sets on every character.
HighBit == 128

\* send_command line 1015: the two bytes that end a response, \r\n shifted.
Terminator == <<141, 138>>

\* Mutant of Whitespace: only the blank separates tokens.
WhitespaceBlankOnly == {32}

\* decode_message line 1054: the characters str.split() splits on.
Whitespace == {9, 10, 11, 12, 13, 32}

RECURSIVE SplitFrom(_, _)
\* str.split() with no separator: maximal runs of characters that are not
\* whitespace; cur is the run being read.
SplitFrom(s, cur) ==
    IF s = <<>> THEN (IF cur = <<>> THEN <<>> ELSE <<cur>>)
    ELSE IF Head(s) \in Whitespace
         THEN (IF cur = <<>> THEN <<>> ELSE <<cur>>) \o SplitFrom(Tail(s), <<>>)
         ELSE SplitFrom(Tail(s), Append(cur, Head(s)))

Split(s) == SplitFrom(s, <<>>)

\* encode_message lines 1036-1038: every character plus 128, then \x8d.
encode_message(message) ==
    [i \in 1..Len(message) |-> message[i] + HighBit] \o <<141>>

\* decode_message lines 1053-1054: every byte minus 128, [:-2], split().
decode_message(message) ==
    LET decoded_bytes == [i \in 1..Len(message) |-> message[i] - HighBit]
        kept == IF Len(message) >= 2
                THEN SubSeq(decoded_bytes, 1, Len(message) - 2) ELSE <<>>
    IN  Split(kept)

\* The characters of the command codes.
CodeChars ==
    [MA |-> <<77, 65>>, AS |-> <<65, 83>>, VD |-> <<86, 68>>,
     BP |-> <<66, 80>>, ZZ |-> <<90, 90>>]

RECURSIVE Join(_)
\* ' '.join(args)
Join(args) ==
    IF args = <<>> THEN <<>>
    ELSE IF Len(args) = 1 THEN args[1]
    ELSE args[1] \o <<32>> \o Join(Tail(args))

\* send_command lines 1004-1006: the command followed by its arguments.
CommandText(code, args) ==
    IF Len(args) >= 1 THEN CodeChars[code] \o <<32>> \o Join(args)
    ELSE CodeChars[code]

\* A command table without the probe command, besides the two of CfgFiles.
CfgNoProbe == [AS |-> 0, VD |-> 0, BP |-> 1]
HandlerTables == CfgFiles \cup {CfgNoProbe}

\* The calls made of send_command: a code of the table or not, with zero,
\* one or two arguments; test_connection calls send_command('MA').
CallCodes == {"MA", "BP", "ZZ"}
CallArgs == {<<>>, << <<55>> >>, << <<55>>, <<56>> >>}
Calls ==
    {[code |-> c, args |-> a, probe |-> FALSE] : c \in CallCodes, a \in CallArgs}
    \cup {[code |-> "MA", args |-> <<>>, probe |-> TRUE]}

\* What the instrument delivers for a request: nothing, OK\r\n, OK without
\* its terminator, two tokens, and two responses one after the other.
OKText == <<79, 75>>
OKBytes == <<207, 203>>
Deliveries ==
    {<<>>, OKBytes \o Terminator, OKBytes,
     <<207, 160, 203>> \o Terminator,
     OKBytes \o Terminator \o OKBytes \o Terminator}

\* Mutant of WithinDeadline: twice the limit.
WithinDeadlineDouble(w) == w < 2 * TimeoutLimit

\* send_command line 1013: time.time()-start_time < self.timeout_limit.
WithinDeadline(w) == w < TimeoutLimit

\* send_command line 1015: received[-2:] == '\x8d\x8a'.
Terminated(buf) ==
    Len(buf) >= 2 /\ SubSeq(buf, Len(buf) - 1, Len(buf)) = Terminator

\* Mutant of TestCatches: the clause written as except socket.timeout.
TestCatchesTimeoutOnly == {"timeout"}

\* test_connection line 1067: except socket.error, whose subtype
\* socket.timeout is.
TestCatches == {"timeout", "error"}

\* test_connection lines 1065-1070 around a send_command that ended as r.
TestReturn(r) ==
    IF r.kind \in TestCatches THEN "False"
    ELSE IF r.kind = "tokens"
         THEN (IF r.tokens = <<OKText>> THEN "True" ELSE "False")
         ELSE "raised"

\* send_command ends: it returns tokens or raises.
Finish(r) ==
    /\ hpc' = "idle"
    /\ result' = r
    /\ tested' = IF call.probe THEN TestReturn(r) ELSE "none"

\* send_command lines 997-1009: validation, then encode and socket.send.
\* The instrument's answer to the request and whether it closes its end are
\* chosen here.
HSendCommand ==
    /\ hpc = "idle"
    /\ \E c \in Calls :
        /\ call' = c
        /\ received' = <<>>
        /\ waited' = 0
        /\ recvStart' = 0
        /\ IF ~Accepted(command_table, c.code, Len(c.args))
           THEN /\ sent' = <<>>
                /\ hpc' = "idle"
                /\ result' = [kind |-> "ValueError", tokens |-> <<>>]
                /\ tested' = IF c.probe THEN "raised" ELSE "none"
                /\ UNCHANGED <<inflight, peer>>
           ELSE \/ /\ sent' = encode_message(CommandText(c.code, c.args))
                   /\ hpc' = "recv"
                   /\ result' = NoResult
                   /\ tested' = "none"
                   /\ inflight' \in Deliveries
                   /\ peer' \in {"open", "closed"}
                \/ /\ sent' = <<>>
                   /\ hpc' = "idle"
                   /\ result' = [kind |-> "error", tokens |-> <<>>]
                   /\ tested' = IF c.probe
                                THEN TestReturn([kind |-> "error"]) ELSE "none"
                   /\ UNCHANGED <<inflight, peer>>
    /\ codec' = NoCodec
    /\ UNCHANGED nonHandler

\* send_command lines 1013-1016: socket.recv(80) returns the next n bytes
\* after d; the loop breaks when the buffer ends with the terminator.
HRecvData ==
    /\ hpc = "recv"
    /\ WithinDeadline(waited)
    /\ inflight # <<>>
    /\ \E got \in 1..Len(inflight), d \in 0..(TimeoutLimit - 1) :
        LET buf == received \o SubSeq(inflight, 1, got) IN
        /\ received' = buf
        /\ inflight' = SubSeq(inflight, got + 1, Len(inflight))
        /\ recvStart' = waited
        /\ waited' = waited + d
        /\ IF Terminated(buf)
           THEN Finish([kind |-> "tokens", tokens |-> decode_message(buf)])
           ELSE UNCHANGED <<hpc, result, tested>>
    /\ UNCHANGED <<call, sent, peer, codec, nonHandler>>

\* send_command line 1014 on a socket the instrument has closed: recv
\* returns '' at once and the loop goes round while time passes.
HRecvClosed ==
    /\ hpc = "recv"
    /\ WithinDeadline(waited)
    /\ inflight = <<>>
    /\ peer = "closed"
    /\ recvStart' = waited
    /\ waited' = waited + 1
    /\ UNCHANGED <<hpc, call, sent, received, inflight, peer, result, tested,
                   codec, nonHandler>>

\* send_command line 1014: nothing arrives within the socket's timeout
\* (line 880) and recv raises socket.timeout.
HRecvTimeout ==
    /\ hpc = "recv"
    /\ WithinDeadline(waited)
    /\ ~(inflight = <<>> /\ peer = "closed")
    /\ recvStart' = waited
    /\ waited' = waited + TimeoutLimit
    /\ Finish([kind |-> "timeout", tokens |-> <<>>])
    /\ UNCHANGED <<call, sent, received, inflight, peer, codec, nonHandler>>

\* send_command line 1014: recv raises another socket.error.
HRecvError ==
    /\ hpc = "recv"
    /\ WithinDeadline(waited)
    /\ recvStart' = waited
    /\ Finish([kind |-> "error", tokens |-> <<>>])
    /\ UNCHANGED <<call, sent, received, waited, inflight, peer, codec,
                   nonHandler>>

\* send_command lines 1017-1018: the while condition fails.
HDeadline ==
    /\ hpc = "recv"
    /\ ~WithinDeadline(waited)
    /\ Finish([kind |-> "timeout", tokens |-> <<>>])
    /\ UNCHANGED <<call, sent, received, waited, recvStart, inflight, peer,
                   codec, nonHandler>>

\* Messages of 7-bit characters: NUL, \r, blank, A and DEL.
Alphabet == {0, 13, 32, 65, 127}
Messages == UNION {[1..len -> Alphabet] : len \in 0..MaxLen}

\* encode_message on a message, and decode_message on that followed by the
\* response terminator.  The record of the last send_command is dropped.
HCodec ==
    /\ hpc = "idle"
    /\ \E m \in Messages :
        codec' = [message |-> m,
                  encoded |-> encode_message(m),
                  decoded |-> decode_message(encode_message(m) \o Terminator)]
    /\ call' = NoCall
    /\ sent' = <<>>
    /\ received' = <<>>
    /\ waited' = 0
    /\ recvStart' = 0
    /\ inflight' = <<>>
    /\ peer' = "open"
    /\ result' = NoResult
    /\ tested' = "none"
    /\ UNCHANGED <<hpc, nonHandler>>

HandlerInit ==
    /\ SessionStart
    /\ command_table \in HandlerTables
    /\ HandlerIdle
    /\ HistoryIdle
    /\ OfflineIdle

HandlerNext ==
    \/ HSendCommand
    \/ HRecvData
    \/ HRecvClosed
    \/ HRecvTimeout
    \/ HRecvError
    \/ HDeadline
    \/ HCodec

HandlerSpec == HandlerInit /\ [][HandlerNext]_vars

\* The send_command call last made has returned or raised.
CallEnded == hpc = "idle" /\ call # NoCall

\* C12: send_command raises ValueError for a code that is not in the
\* command table and for a code of the table called with another number of
\* arguments than the table declares, and then it has written no byte; a
\* call that matches the table does not raise ValueError.
C12_RejectedBeforeSend ==
    call # NoCall =>
        LET matches == /\ call.code \in DOMAIN command_table
                       /\ command_table[call.code] = Len(call.args)
        IN  /\ ~matches => /\ hpc = "idle"
                           /\ result.kind = "ValueError"
                           /\ sent = <<>>
            /\ matches => result.kind # "ValueError"

\* A code of the table called with one argument too many was rejected.
C12_Witness ==
    /\ call.code = "BP"
    /\ Len(call.args) = 2
    /\ command_table = CfgComplete
    /\ result.kind = "ValueError"
    /\ sent = <<>>

C14_ProbeTrueOnlyOnOK ==
    tested # "none" =>
        /\ call.code = "MA" /\ call.args = <<>>
        /\ tested = "True" <=>
              (result.kind = "tokens" /\ result.tokens = <<OKText>>)
        /\ result.kind \in {"timeout", "error"} => tested = "False"
        /\ tested = "raised" => result.kind = "ValueError"

\* A probe that met a socket.error returned False.
C14_Witness == tested = "False" /\ result.kind = "error" /\ hpc = "idle"

\* C15: for a message m of 7-bit characters, encode_message(m) is every
\* character plus 128 followed by the byte 0x8D, and decode_message of that
\* followed by the response terminator is the list of the whitespace
\* separated tokens of m.
C15_RoundTrip ==
    codec # NoCodec =>
        /\ Len(codec.encoded) = Len(codec.message) + 1
        /\ \A i \in 1..Len(codec.message) :
              codec.encoded[i] = codec.message[i] + 128
        /\ codec.encoded[Len(codec.encoded)] = 141
        /\ codec.decoded = Split(codec.message)

\* A message of two tokens with a carriage return of its own.
C15_Witness ==
    /\ codec.message = <<65, 13, 65>>
    /\ codec.decoded = << <<65>>, <<65>> >>

\* ================================================================ history
\* The History class: every public method called in any order by one
\* thread, with timestamps that do not decrease.  A timestamp is a number of
\* ticks of half a second.

\* History.string_time lines 418-426: strftime to the second.
string_time(time) == time \div 2

\* History.save_name lines 393-403: the two formatted times of the name.
save_name(start_time, end_time) ==
    <<string_time(start_time), string_time(end_time)>>

\* History.write_points lines 412-416: one line per point of the slice
\* first..last (from 1), the formatted time and str(v), '--' if masked
\* (written -1).
write_points(first, last) ==
    [i \in 1..(last - first + 1) |->
        [time |-> string_time(times[first + i - 1]),
         value |-> IF values[first + i - 1].mask THEN -1
                   ELSE values[first + i - 1].data]]

\* The lines of the file called name, none if there is no such file.
Content(fs, name) ==
    IF \E f \in fs : f.name = name
    THEN (CHOOSE f \in fs : f.name = name).lines
    ELSE <<>>

\* open(name, 'a+') and writes: the lines are added to the file, which is
\* created if it does not exist.
AppendTo(fs, name, lines) ==
    {f \in fs : f.name # name}
        \cup {[name |-> name, lines |-> Content(fs, name) \o lines]}

\* open(name, 'w+') and writes: the file holds the lines and nothing else.
WriteTo(fs, name, lines) ==
    {f \in fs : f.name # name} \cup {[name |-> name, lines |-> lines]}

\* os.rename(old, new): new takes the place of any file of that name.
Rename(fs, old, new) ==
    IF old = new THEN fs
    ELSE {f \in fs : f.name \notin {old, new}}
            \cup {[name |-> new, lines |-> Content(fs, old)]}

RECURSIVE BisectRight(_, _, _, _)
\* numpy searchsorted(x, 'right') on a: the binary search for the first
\* position (from 0) whose entry is greater than x.
BisectRight(a, x, lo, hi) ==
    IF lo >= hi THEN lo
    ELSE LET mid == lo + (hi - lo) \div 2
         IN  IF a[mid + 1] <= x THEN BisectRight(a, x, mid + 1, hi)
             ELSE BisectRight(a, x, lo, mid)

searchsorted_right(a, x) == BisectRight(a, x, 0, Len(a))

\* Mutant of new_end: the time of the flush.
new_end_now == now

\* write_log line 445: new_end = self.times[self.filled_points-1]
new_end == times[filled_points]

\* Mutant of write_log: no test of can_save.
write_log_unchecked(io) ==
    IF ~logging \/ filled_points = 0 \/ ~io
    THEN [ok |-> FALSE, files |-> files, log_end |-> log_end]
    ELSE LET old_file == save_name(log_start, log_end)
             new_file == save_name(log_start, new_end)
             start_point ==
                 searchsorted_right(SubSeq(times, 1, filled_points), log_end)
         IN  [ok |-> TRUE,
              files |-> Rename(AppendTo(files, old_file,
                                        write_points(start_point + 1,
                                                     filled_points)),
                               old_file, new_file),
              log_end |-> new_end]

\* History.write_log lines 437-454 with open() succeeding or not (io): what
\* it leaves in files and log_end, and whether it returned.  It raises
\* RuntimeError when logging is off or can_save is false, AttributeError
\* when no point is filled (times[-1] is the integer 0, which has no
\* strftime), IOError when the file cannot be opened; then nothing changed.
write_log(io) ==
    IF ~logging \/ ~can_save \/ filled_points = 0 \/ ~io
    THEN [ok |-> FALSE, files |-> files, log_end |-> log_end]
    ELSE LET old_file == save_name(log_start, log_end)
             new_file == save_name(log_start, new_end)
             start_point ==
                 searchsorted_right(SubSeq(times, 1, filled_points), log_end)
         IN  [ok |-> TRUE,
              files |-> Rename(AppendTo(files, old_file,
                                        write_points(start_point + 1,
                                                     filled_points)),
                               old_file, new_file),
              log_end |-> new_end]

\* Mutant of SpanMet: the test of line 330 always succeeds.
SpanMetAlways == TRUE

\* arrays_full line 330: history_buffer points can go and history_length
\* of time is still held.
SpanMet ==
    times[Len(times)] - times[history_buffer + 1] >= history_length

\* Mutant of Keep: when the span is met the whole array is kept.
KeepAll(old_points) == old_points

\* arrays_full lines 332 and 335: the points copied.
Keep(old_points) ==
    IF SpanMet THEN old_points - history_buffer ELSE old_points

\* Mutant of NewPoints: the arrays never grow.
NewPointsSame(old_points) == old_points

\* arrays_full lines 331 and 334: the length of the new arrays.
NewPoints(old_points) ==
    IF SpanMet THEN old_points ELSE old_points + history_buffer

\* Mutant of LastOf: a[:keep], the oldest points.
FirstOf(a, keep) == SubSeq(a, 1, keep)

\* a[-keep:]
LastOf(a, keep) == SubSeq(a, Len(a) - keep + 1, Len(a))

\* arrays_full lines 329-342 after the flush: the new arrays and
\* filled_points.
arrays_full ==
    LET old_points == Len(times)
        keep == Keep(old_points)
        fresh == allocate_arrays(NewPoints(old_points))
    IN  [times |-> [i \in 1..Len(fresh.times) |->
                       IF i <= keep THEN LastOf(times, keep)[i]
                       ELSE fresh.times[i]],
         values |-> [i \in 1..Len(fresh.values) |->
                       IF i <= keep THEN LastOf(values, keep)[i]
                       ELSE fresh.values[i]],
         filled_points |-> keep]

\* add_point lines 352-354: values[i] = np.ma.masked sets the mask of the
\* entry and leaves its data.
Store(vs, i, value) ==
    [vs EXCEPT ![i] = IF value.mask THEN [@ EXCEPT !.mask = TRUE] ELSE value]

\* The arrays grow to three blocks at most.
MaxCapacity == 3 * history_buffer

\* The samples given to add_point: a reading, or np.ma.masked.
Samples == {[data |-> 5, mask |-> FALSE], [data |-> 0, mask |-> TRUE]}

\* The timestamp of the last filled point, 1 if there is none.
LastTime == IF filled_points = 0 THEN 1 ELSE times[filled_points]

\* The earliest timestamp a sample added now can carry: not before the
\* last filled point, and at most one tick old.
EarliestTime ==
    IF LastTime > now - 1 THEN LastTime
    ELSE IF now - 1 < 1 THEN 1 ELSE now - 1

\* The bounds on a call of add_point: the calls made, the masked samples
\* among them, and the length the arrays may grow to.
CanAdd(value) ==
    /\ counts.points < MaxPoints
    /\ value.mask => counts.masked < MaxMasked
    /\ filled_points = Len(times) => NewPoints(Len(times)) <= MaxCapacity

\* History.add_point lines 344-357, arrays_full lines 310-342: on full
\* arrays the flush if logging is on, the reallocation, and then the store.
\* When the flush raises nothing has changed.
add_point(time, value, io) ==
    /\ counts' = [counts EXCEPT !.points = @ + 1,
                     !.masked = IF value.mask THEN @ + 1 ELSE @]
    /\ IF filled_points < Len(times)
       THEN /\ times' = [times EXCEPT ![filled_points + 1] = time]
            /\ values' = Store(values, filled_points + 1, value)
            /\ filled_points' = filled_points + 1
            /\ raised' = FALSE
            /\ UNCHANGED <<files, log_end, flushed>>
       ELSE IF logging /\ ~write_log(io).ok
       THEN /\ raised' = TRUE
            /\ UNCHANGED <<times, values, filled_points, files, log_end,
                           flushed>>
       ELSE /\ files' = IF logging THEN write_log(io).files ELSE files
            /\ log_end' = IF logging THEN write_log(io).log_end ELSE log_end
            /\ flushed' = (flushed \/ logging)
            /\ times' = [arrays_full.times EXCEPT
                            ![arrays_full.filled_points + 1] = time]
            /\ values' = Store(arrays_full.values,
                               arrays_full.filled_points + 1, value)
            /\ filled_points' = arrays_full.filled_points + 1
            /\ raised' = FALSE
    /\ UNCHANGED <<logging, log_start, can_save, history_length, now>>

\* A call of add_point with a timestamp that is not before the last one.
AddPoint ==
    \E time \in EarliestTime..now, value \in Samples, io \in BOOLEAN :
        /\ CanAdd(value)
        /\ add_point(time, value, io)
        /\ UNCHANGED nonHistory

\* Mutant of begin_logging: no test of logging, a call while logging is on
\* starts the session again.
begin_logging_anew ==
    /\ logging \/ counts.sessions < MaxSessions
    /\ counts' = [counts EXCEPT !.sessions = IF logging THEN @ ELSE @ + 1]
    /\ log_start' = now
    /\ log_end' = now
    /\ logging' = TRUE
    /\ flushed' = FALSE
    /\ raised' = FALSE
    /\ UNCHANGED <<times, values, filled_points, can_save, history_length,
                   files, now>>

\* History.begin_logging lines 428-435.
begin_logging ==
    /\ IF logging
       THEN /\ raised' = TRUE
            /\ UNCHANGED <<logging, log_start, log_end, flushed, counts>>
       ELSE /\ counts.sessions < MaxSessions
            /\ counts' = [counts EXCEPT !.sessions = @ + 1]
            /\ log_start' = now
            /\ log_end' = now
            /\ logging' = TRUE
            /\ flushed' = FALSE
            /\ raised' = FALSE
    /\ UNCHANGED <<times, values, filled_points, can_save, history_length,
                   files, now>>

BeginLogging == begin_logging /\ UNCHANGED nonHistory

\* History.write_log lines 437-454 called by itself, with open()
\* succeeding or not (io).
flush(io) ==
    /\ files' = write_log(io).files
    /\ log_end' = write_log(io).log_end
    /\ flushed' = (flushed \/ write_log(io).ok)
    /\ raised' = ~write_log(io).ok
    /\ UNCHANGED <<times, values, filled_points, logging, log_start,
                   can_save, history_length, now, counts>>

WriteLog == \E io \in BOOLEAN : flush(io) /\ UNCHANGED nonHistory

\* History.end_logging lines 456-464, with open() succeeding or not (io).
end_logging(io) ==
    /\ IF write_log(io).ok
       THEN /\ files' = write_log(io).files
            /\ logging' = FALSE
            /\ log_start' = now
            /\ log_end' = now
            /\ flushed' = FALSE
            /\ raised' = FALSE
       ELSE /\ raised' = TRUE
            /\ UNCHANGED <<files, logging, log_start, log_end, flushed>>
    /\ UNCHANGED <<times, values, filled_points, can_save, history_length,
                   now, counts>>

EndLogging == \E io \in BOOLEAN : end_logging(io) /\ UNCHANGED nonHistory

\* Time passes.
Tick ==
    /\ now < MaxTime
    /\ now' = now + 1
    /\ UNCHANGED <<times, values, filled_points, logging, log_start, log_end,
                   can_save, history_length, files, raised, flushed, counts,
                   nonHistory>>

\* The history lengths of the configuration, in ticks.
HistoryLengths == {1, 2}

HistoryInit ==
    /\ SessionStart
    /\ command_table = CfgComplete
    /\ HandlerIdle
    /\ HistoryNew
    /\ OfflineIdle
    /\ can_save \in BOOLEAN
    /\ history_length \in HistoryLengths

HistoryNext ==
    \/ AddPoint
    \/ BeginLogging
    \/ WriteLog
    \/ EndLogging
    \/ Tick

HistorySpec == HistoryInit /\ [][HistoryNext]_vars

\* ---------------------------------------------------------- history claims
\* The filled points in order: the timestamp and the value of each.
Filled ==
    [i \in 1..filled_points |-> [time |-> times[i], value |-> values[i]]]

\* The step is a call of add_point.
AddPointCalled == counts'.points = counts.points + 1

\* C16: in every reachable state filled_points is at most the length of the
\* arrays (and the two arrays have one length); a call of add_point that
\* returns leaves the filled points it found, but for the oldest k of them,
\* in their order and followed by exactly one more point, where k is zero
\* unless the arrays were full; a call of add_point that raises leaves the
\* arrays and filled_points as they were.
C16_OneSamplePerAdd ==
    /\ [](filled_points <= Len(times) /\ Len(values) = Len(times))
    /\ [][/\ (AddPointCalled /\ ~raised') =>
                \E k \in 0..filled_points :
                    /\ filled_points' = filled_points - k + 1
                    /\ \A i \in 1..(filled_points - k) :
                           Filled'[i] = Filled[k + i]
                    /\ Filled'[filled_points'].time \in 1..now
                    /\ filled_points < Len(times) => k = 0
           /\ (AddPointCalled /\ raised') =>
                UNCHANGED <<times, values, filled_points>>]_vars

\* add_point found the arrays full, reallocated them and stored the point
\* as the last filled one.
C16_Witness ==
    /\ counts.points = 2 * history_buffer + 1
    /\ ~raised
    /\ filled_points \in {history_buffer + 1, 2 * history_buffer + 1}
    /\ times[filled_points] >= 1

\* C18 as stated: whenever logging is on and a point is filled, log_end is
\* at most the timestamp of the last filled point.
C18_LogEndNotAfterLast ==
    (logging /\ filled_points >= 1) => log_end <= times[filled_points]

\* C18: whenever logging is on, either no write_log has completed since
\* begin_logging and log_end is log_start, the time begin_logging was
\* called, or a write_log has completed, a point is filled and log_end is at
\* most the timestamp of the last filled point.
C18_LogEndAfterFlush ==
    logging =>
        /\ ~flushed => log_end = log_start
        /\ flushed => (filled_points >= 1 /\ log_end <= times[filled_points])

\* begin_logging was called on arrays that held points, and a write_log that
\* found no new point took log_end back to the last of them.
C18_Witness ==
    /\ logging
    /\ flushed
    /\ filled_points >= 1
    /\ log_end = times[filled_points]
    /\ log_end < log_start

\* The step is a call of add_point that found the arrays full and returned.
AddedToFull == AddPointCalled /\ ~raised' /\ filled_points = Len(times)

\* C19: when the arrays are full with C entries and the last timestamp less
\* the timestamp history_buffer positions from the start is below
\* history_length, an add_point that returns leaves arrays of C +
\* history_buffer entries whose first C entries are the old ones, times,
\* values and masks, in their order, with the new point after them and
\* filled_points C + 1.
C19_GrowthKeepsAll ==
    [][(/\ AddedToFull
        /\ times[Len(times)] - times[history_buffer + 1] < history_length) =>
            /\ Len(times') = Len(times) + history_buffer
            /\ Len(values') = Len(times) + history_buffer
            /\ filled_points' = Len(times) + 1
            /\ \A i \in 1..Len(times) :
                   times'[i] = times[i] /\ values'[i] = values[i]
            /\ times'[Len(times) + 1] \in 1..now]_vars

\* The arrays have grown once and hold one point more than they held
\* before, with different timestamps.
C19_Witness ==
    /\ Len(times) = 3 * history_buffer
    /\ filled_points = 2 * history_buffer + 1
    /\ counts.points = 2 * history_buffer + 1
    /\ ~raised
    /\ times[1] < times[filled_points]

\* C20: when the arrays are full with C entries and the last timestamp less
\* the timestamp history_buffer positions from the start is at least
\* history_length, an add_point that returns leaves arrays of C entries
\* that begin with the old entries from position history_buffer on, times,
\* values and masks, in their order, with the new point after them and
\* filled_points C - history_buffer + 1.
C20_CompactionKeepsRecent ==
    [][(/\ AddedToFull
        /\ times[Len(times)] - times[history_buffer + 1] >= history_length) =>
            /\ Len(times') = Len(times)
            /\ Len(values') = Len(times)
            /\ filled_points' = Len(times) - history_buffer + 1
            /\ \A i \in 1..(Len(times) - history_buffer) :
                   /\ times'[i] = times[history_buffer + i]
                   /\ values'[i] = values[history_buffer + i]
            /\ times'[filled_points'] \in 1..now]_vars

\* The arrays were compacted and a masked point is among those kept.
C20_Witness ==
    /\ Len(times) = 2 * history_buffer
    /\ filled_points = history_buffer + 1
    /\ counts.points = 2 * history_buffer + 1
    /\ ~raised
    /\ \E i \in 1..history_buffer : values[i].mask
    /\ times[1] < times[filled_points]

\* The filled points the step drops: the oldest Discarded of them.
Discarded == filled_points + 1 - filled_points'

\* C21: when a call of add_point that returns drops filled points, each
\* dropped point is at least history_length older than the last point held
\* when it is dropped.
C21_DiscardsOnlyOld ==
    [][(AddPointCalled /\ ~raised') =>
          \A i \in 1..Discarded :
              times[filled_points] - times[i] >= history_length]_vars

\* The fifth point found four held, the oldest two were dropped and the
\* points still held span history_length.
C21_Witness ==
    /\ counts.points = 2 * history_buffer + 1
    /\ ~raised
    /\ Len(times) = 2 * history_buffer
    /\ filled_points = history_buffer + 1
    /\ times[filled_points] - times[1] >= history_length
    /\ values[filled_points].mask = FALSE

\* C25: begin_logging while logging is on, and write_log or end_logging
\* while it is off, raise and leave logging, log_start, log_end and the
\* arrays as they were; begin_logging while logging is off turns it on and
\* sets log_start and log_end to the time of the call; an end_logging that
\* returns has flushed as write_log does and turned logging off.
C25_LoggingCalls ==
    [][/\ (logging /\ begin_logging) =>
              /\ raised'
              /\ UNCHANGED <<logging, log_start, log_end, times, values,
                             filled_points>>
       /\ (~logging /\ \E io \in BOOLEAN : flush(io) \/ end_logging(io)) =>
              /\ raised'
              /\ UNCHANGED <<logging, log_start, log_end, times, values,
                             filled_points, files>>
       /\ (~logging /\ begin_logging) =>
              /\ ~raised'
              /\ logging'
              /\ log_start' = now
              /\ log_end' = now
       /\ (logging /\ ~raised' /\ \E io \in BOOLEAN : end_logging(io)) =>
              /\ ~logging'
              /\ files' = write_log(TRUE).files]_vars

\* A session has been ended, its file is there, and then write_log or
\* end_logging was called with logging off.
C25_Witness ==
    /\ raised
    /\ ~logging
    /\ counts.sessions = 1
    /\ files # {}

\* C32: while logging is on and the log directory cannot be written,
\* write_log and end_logging raise, and so does add_point on full arrays;
\* each leaves the arrays, filled_points, logging, log_start, log_end and
\* the files as they were, so the arrays stay full and logging stays on.
C32_UnwritableChangesNothing ==
    [][(logging /\ ~can_save) =>
          /\ (\E io \in BOOLEAN : flush(io) \/ end_logging(io)) =>
                /\ raised'
                /\ UNCHANGED <<times, values, filled_points, logging,
                               log_start, log_end, files>>
          /\ (AddPointCalled /\ filled_points = Len(times)) =>
                /\ raised'
                /\ UNCHANGED <<times, values, filled_points, logging,
                               log_start, log_end, files>>]_vars

\* add_point was called on full arrays with logging on and an unwritable
\* directory, and raised.
C32_Witness ==
    /\ raised
    /\ logging
    /\ ~can_save
    /\ filled_points = Len(times)
    /\ counts.points = filled_points + 1
    /\ files = {}

\* ==================================================================== log
\* The History methods again, each with what a reader of the log expects
\* kept beside it: the samples stored since begin_logging.

\* write_points line 414: the line written for a sample.
Line(time, value) ==
    [time |-> string_time(time),
     value |-> IF value.mask THEN -1 ELSE value.data]

LogAddPoint ==
    \E time \in EarliestTime..now, value \in Samples, io \in BOOLEAN :
        /\ CanAdd(value)
        /\ add_point(time, value, io)
        /\ session' = IF logging /\ ~raised'
                      THEN Append(session, Line(time, value))
                      ELSE session
        /\ method' = "add_point"
        /\ UNCHANGED nonLog

LogBeginLogging ==
    /\ begin_logging
    /\ session' = IF raised' THEN session ELSE <<>>
    /\ method' = "begin_logging"
    /\ UNCHANGED nonLog

LogWriteLog ==
    \E io \in BOOLEAN :
        /\ flush(io)
        /\ method' = "write_log"
        /\ UNCHANGED <<session, nonLog>>

LogEndLogging ==
    \E io \in BOOLEAN :
        /\ end_logging(io)
        /\ session' = IF raised' THEN session ELSE <<>>
        /\ method' = "end_logging"
        /\ UNCHANGED nonLog

LogNext ==
    \/ LogAddPoint
    \/ LogBeginLogging
    \/ LogWriteLog
    \/ LogEndLogging
    \/ Tick

LogSpec == HistoryInit /\ [][LogNext]_vars

\* -------------------------------------------------------------- log claims
\* C23: when a flush has completed, by write_log called by itself, by
\* end_logging or by add_point on full arrays, the log file of the session
\* holds exactly the samples stored since begin_logging before that call,
\* each once and in the order they were stored.
C23_LoggedExactlyOnce ==
    [][/\ (logging /\ (\E io \in BOOLEAN : flush(io)) /\ ~raised') =>
              Content(files', save_name(log_start, log_end')) = session
       /\ (logging /\ ~logging') =>
              Content(files', save_name(log_start, new_end)) = session
       /\ (/\ logging
           /\ AddPointCalled
           /\ ~raised'
           /\ filled_points = Len(times)) =>
              Content(files', save_name(log_start, log_end')) = session]_vars

\* The files whose name starts with the formatted start of the session.
LogFiles(fs) == {f \in fs : f.name[1] = string_time(log_start)}

\* C24: when write_log or end_logging is called while logging is on, the
\* directory can be written and the file opens, the call returns and leaves
\* exactly one file of the session, whose name ends with the time of the
\* last line in it and starts no later than the time of its first line;
\* this with no point filled too.
C24_OneLogFileNamedByContents ==
    [][(/\ logging
        /\ can_save
        /\ \/ method' = "write_log" /\ flush(TRUE)
           \/ method' = "end_logging" /\ end_logging(TRUE)) =>
          /\ ~raised'
          /\ \E f \in files' :
                /\ LogFiles(files') = {f}
                /\ Len(f.lines) > 0 =>
                      /\ f.name[2] = f.lines[Len(f.lines)].time
                      /\ f.name[1] <= f.lines[1].time]_vars

\* How many entries of the sequence s equal x.
Count(s, x) == Cardinality({i \in 1..Len(s) : s[i] = x})

\* The filled points as the lines write_points makes of them.
Held == [i \in 1..filled_points |-> Line(times[i], values[i])]

\* C28: while logging is on, every sample stored since begin_logging is
\* still among the filled points or is in the log file of the session:
\* what add_point discards on full arrays was flushed before.  Samples are
\* compared as the lines written for them, counted with their repetitions.
C28_NoneDroppedUnlogged ==
    logging =>
        \A i \in 1..Len(session) :
            Count(session, session[i]) <=
                Count(Content(files, save_name(log_start, log_end)),
                      session[i])
                    + Count(Held, session[i])

\* =================================================================== save
\* History.save_history, which the save button calls, on the arrays
\* add_point fills.

\* Mutant of NothingToSave: only the arrays with no point filled are left
\* unsaved.
NothingFilled == filled_points = 0

\* save_history line 382: if self.filled_points <= 1
NothingToSave == filled_points <= 1

\* History.save_history lines 380-391 with open() succeeding or not (io).
save_history(io) ==
    /\ IF NothingToSave
       THEN raised' = FALSE /\ UNCHANGED files
       ELSE IF ~can_save \/ ~io
       THEN raised' = TRUE /\ UNCHANGED files
       ELSE /\ raised' = FALSE
            /\ files' = WriteTo(files,
                                save_name(times[1], times[filled_points]),
                                write_points(1, filled_points))
    /\ UNCHANGED <<times, values, filled_points, logging, log_start,
                   log_end, can_save, history_length, now, flushed, counts>>

SaveHistory == \E io \in BOOLEAN : save_history(io) /\ UNCHANGED nonHistory

SaveNext ==
    \/ AddPoint
    \/ BeginLogging
    \/ SaveHistory
    \/ Tick

SaveSpec == HistoryInit /\ [][SaveNext]_vars

\* ------------------------------------------------------------ save claims
\* C26: save_history leaves the arrays, filled_points and the logging
\* state as they were.  With fewer than two points filled it returns and
\* no file is made or changed; with two or more and a directory that cannot
\* be written it raises and no file is made or changed; with two or more, a
\* writable directory and the file opened it returns, one file has been
\* written, named by the times of the first and the last filled point, and
\* its lines are those of the filled points in their order.
C26_SaveHistory ==
    [][\A io \in BOOLEAN : save_history(io) =>
          /\ UNCHANGED <<times, values, filled_points, logging, log_start,
                         log_end>>
          /\ filled_points < 2 => ~raised' /\ files' = files
          /\ (filled_points >= 2 /\ ~can_save) => raised' /\ files' = files
          /\ (filled_points >= 2 /\ can_save /\ io) =>
                /\ ~raised'
                /\ \E f \in files' :
                      /\ f.name = <<string_time(times[1]),
                                    string_time(times[filled_points])>>
                      /\ Len(f.lines) = filled_points
                      /\ \A i \in 1..filled_points :
                            f.lines[i] = Line(times[i], values[i])
                      /\ files' \ {f} \subseteq files]_vars

\* Three points, a masked one among them, have been saved to a file while
\* logging was never on.
C26_Witness ==
    /\ ~raised
    /\ counts.sessions = 0
    /\ filled_points = 3
    /\ \E i \in 1..3 : values[i].mask
    /\ \E f \in files :
          /\ Len(f.lines) = 3
          /\ f.name = save_name(times[1], times[3])

\* ================================================================== range
\* History.active_range, which the plot calls with its longest range, on
\* the arrays add_point fills.

RECURSIVE BisectLeft(_, _, _, _)
\* numpy searchsorted(x) on a, side 'left': the binary search for the first
\* position (from 0) whose entry is not less than x.
BisectLeft(a, x, lo, hi) ==
    IF lo >= hi THEN lo
    ELSE LET mid == lo + (hi - lo) \div 2
         IN  IF a[mid + 1] < x THEN BisectLeft(a, x, mid + 1, hi)
             ELSE BisectLeft(a, x, lo, mid)

\* Mutant of searchsorted_left: the search with side 'right'.
searchsorted_after(a, x) == BisectRight(a, x, 0, Len(a))

searchsorted_left(a, x) == BisectLeft(a, x, 0, Len(a))

\* History.active_range lines 359-378: None, None with at most one filled
\* point, else the slices of times and values from start_point.
active_range(time_range) ==
    IF filled_points <= 1
    THEN [time_range |-> time_range, none |-> TRUE,
          times |-> <<>>, values |-> <<>>]
    ELSE LET start_time == times[filled_points] - time_range
             start_point ==
                 searchsorted_left(SubSeq(times, 1, filled_points), start_time)
         IN  [time_range |-> time_range, none |-> FALSE,
              times |-> SubSeq(times, start_point + 1, filled_points),
              values |-> SubSeq(values, start_point + 1, filled_points)]

\* The ranges active_range is called with, in ticks.
TimeRanges == 0..MaxTime

\* A call of active_range.
ActiveRange ==
    \E time_range \in TimeRanges :
        /\ active' = active_range(time_range)
        /\ UNCHANGED <<sessionVars, handlerVars, historyVars, offlineVars,
                       logVars, raceVars>>

RangeNext ==
    \/ AddPoint
    \/ Tick
    \/ ActiveRange

RangeSpec == HistoryInit /\ [][RangeNext]_vars

\* ------------------------------------------------------------ range claims
\* C22: a call of active_range with at most one filled point returns the
\* empty result; with two or more it returns the times and the values of
\* the filled points from one position on, where every point before that
\* position is earlier than the last timestamp less the range and every
\* point from it on is not.
C22_ActiveRangeSuffix ==
    [][active' # active =>
          IF filled_points <= 1
          THEN active'.none /\ active'.times = <<>> /\ active'.values = <<>>
          ELSE /\ ~active'.none
               /\ \E k \in 0..filled_points :
                    /\ active'.times = SubSeq(times, k + 1, filled_points)
                    /\ active'.values = SubSeq(values, k + 1, filled_points)
                    /\ \A i \in 1..k :
                         times[i] < times[filled_points] - active'.time_range
                    /\ \A i \in (k + 1)..filled_points :
                         times[i] >= times[filled_points] - active'.time_range]_vars

\* active_range returned some of the filled points, the first of them on
\* the boundary.
C22_Witness ==
    /\ ~active.none
    /\ active.time_range = 0
    /\ Len(active.times) >= 2
    /\ Len(active.times) < filled_points
    /\ active.times[1] = times[filled_points]
    /\ active.times = SubSeq(times, filled_points - Len(active.times) + 1,
                             filled_points)

\* ================================================================ offline
\* The program started with --offline: run() calls run_offline in place of
\* run_connection.  The loop thread stamps fake statuses and emits them; the
\* UI thread adds them to spinning_history in got_status; when its loop has
\* ended run_offline itself, on the loop thread, adds a masked sample.

\* range(100) of run_offline line 845: 100 iterations in the program, 2 here.
offline_range == 2

\* run_offline lines 850-852: the status of iteration k with its timestamp.
OfflineStatus(status_time, k) ==
    [id |-> 0, kind |-> "got_status", cause |-> "none",
     time |-> status_time, spin |-> k]

\* np.ma.masked
Masked == [data |-> 0, mask |-> TRUE]

\* What no step of the offline program writes.
offlineFrame ==
    <<retry_dialog_open, exc, elapsed, command, response, sock, unread,
      command_table, retries, ack, emits, cause, recov, sockErr, escErr,
      aborted, wire, handlerVars, readVars, logVars, raceVars>>

\* run lines 753-756: while self.running: if self.offline:
\* self.run_offline(); continue.
OffRunCheck ==
    /\ pc = "run_top"
    /\ pc' = IF running THEN "off_iter" ELSE "done"
    /\ n' = 0
    /\ UNCHANGED <<running, queue, chan, slots, uipc, history, polls,
                   nEmitted, delivered, nEnq, deq, historyVars, offlineFrame>>

\* run_offline lines 845-847: the loop ends after range(100), and returns
\* when running is False.
OffCheck ==
    /\ pc = "off_iter"
    /\ pc' = IF n = offline_range THEN "off_mask"
             ELSE IF ~running THEN "run_top"
             ELSE "off_cycle"
    /\ UNCHANGED <<running, queue, chan, slots, uipc, history, polls,
                   nEmitted, delivered, nEnq, deq, n, historyVars,
                   offlineFrame>>

\* run_offline lines 849-856: with an empty queue a status stamped
\* datetime.now() is emitted, otherwise a command is taken and printed.
OffCycle ==
    /\ pc = "off_cycle"
    /\ IF queue = <<>>
       THEN /\ polls < MaxPolls
            /\ polls' = polls + 1
            /\ Emit("got_status", OfflineStatus(now, n))
            /\ UNCHANGED <<queue, deq>>
       ELSE /\ queue' = AfterGet(queue)
            /\ deq' = Append(deq, Head(queue).id)
            /\ UNCHANGED <<polls, chan, nEmitted>>
    /\ n' = n + 1
    /\ pc' = "off_iter"
    /\ UNCHANGED <<running, slots, uipc, history, delivered, nEnq,
                   historyVars, offlineFrame>>

\* run_offline line 857, run by the loop thread:
\* self.parent.spinning_history.add_point(datetime.now(), np.ma.masked).
\* An exception of add_point leaves run().
OffMask ==
    /\ pc = "off_mask"
    /\ CanAdd(Masked)
    /\ \E io \in BOOLEAN : add_point(now, Masked, io)
    /\ pc' = IF raised' THEN "done" ELSE "run_top"
    /\ history' = IF raised' THEN history ELSE Append(history, "masked")
    /\ UNCHANGED <<running, queue, chan, slots, uipc, polls, nEmitted,
                   delivered, nEnq, deq, n, offlineFrame>>

\* got_status lines 55-70 for the oldest queued signal, run by the UI
\* thread: add_point(status[1], int(status[0].spin)).
OffGotStatus ==
    /\ uipc = "idle"
    /\ chan # <<>>
    /\ Head(chan).kind = "got_status"
    /\ LET value == [data |-> Head(chan).spin, mask |-> FALSE]
       IN  /\ CanAdd(value)
           /\ \E io \in BOOLEAN : add_point(Head(chan).time, value, io)
    /\ history' = IF raised' THEN history ELSE Append(history, "value")
    /\ delivered' = Append(delivered, Head(chan).id)
    /\ chan' = Tail(chan)
    /\ UNCHANGED <<pc, running, queue, slots, uipc, polls, nEmitted, nEnq,
                   deq, n, offlineFrame>>

OfflineInit ==
    /\ SessionStart
    /\ command_table = CfgComplete
    /\ HandlerIdle
    /\ HistoryIdle
    /\ OfflineIdle

OfflineNext ==
    \/ OffRunCheck
    \/ OffCheck
    \/ OffCycle
    \/ OffMask
    \/ UIStart
    \/ UIConnectStatus
    \/ UIConnectReconnect
    \/ OffGotStatus
    \/ UserCommand
    \/ UserQuit
    \/ UICleanupWait
    \/ Tick

OfflineSpec == OfflineInit /\ [][OfflineNext]_vars

\* ---------------------------------------------------------- offline claims
\* C17: in every reachable state the timestamps of the filled points do not
\* decrease from one point to the next.
C17_TimesSorted ==
    \A i \in 1..(filled_points - 1) : times[i] <= times[i + 1]

\* =================================================================== race
\* The offline program again with add_point run a statement at a time, as
\* the interpreter may switch between the loop thread (run_offline line
\* 857) and the UI thread (got_status line 65) between any two of them.
\* logging is never on here, so arrays_full only reallocates.

\* What no statement of add_point writes.
raceFrame ==
    <<logging, log_start, log_end, can_save, history_length, files, now,
      flushed, counts>>

\* The call of add_point by thread t: the arguments are bound.
add_point_call(t, time, value) ==
    /\ CanAdd(value)
    /\ counts' = [counts EXCEPT !.points = @ + 1,
                     !.masked = IF value.mask THEN @ + 1 ELSE @]
    /\ adding' = [adding EXCEPT ![t] = [at |-> "test", time |-> time,
                                        value |-> value, loaded |-> 0]]
    /\ UNCHANGED <<times, values, filled_points, logging, log_start,
                   log_end, can_save, history_length, files, now, raised,
                   flushed, since>>

\* The next statement of add_point lines 351-357 on thread t.  The index
\* filled_points is read when the statement runs; an index past the end of
\* the arrays raises IndexError.  self.filled_points += 1 is a load and a
\* store.
add_point_statement(t) ==
    LET a == adding[t]
        goto(at) == adding' = [adding EXCEPT ![t].at = at]
    IN  /\ a.at # "idle"
        /\ ~logging
        /\ CASE a.at = "test" ->
                  IF filled_points < Len(times)
                  THEN /\ goto("time")
                       /\ UNCHANGED <<times, values, filled_points, raised,
                                      since>>
                  ELSE /\ times' = arrays_full.times
                       /\ values' = arrays_full.values
                       /\ filled_points' = arrays_full.filled_points
                       /\ since' = [filled |-> arrays_full.filled_points,
                                    returned |-> 0]
                       /\ UNCHANGED <<adding, raised>>
             [] a.at = "time" ->
                  IF filled_points < Len(times)
                  THEN /\ times' = [times EXCEPT ![filled_points + 1] = a.time]
                       /\ goto("value")
                       /\ UNCHANGED <<values, filled_points, raised, since>>
                  ELSE /\ raised' = TRUE
                       /\ goto("idle")
                       /\ UNCHANGED <<times, values, filled_points, since>>
             [] a.at = "value" ->
                  IF filled_points < Len(times)
                  THEN /\ values' = Store(values, filled_points + 1, a.value)
                       /\ goto("load")
                       /\ UNCHANGED <<times, filled_points, raised, since>>
                  ELSE /\ raised' = TRUE
                       /\ goto("idle")
                       /\ UNCHANGED <<times, values, filled_points, since>>
             [] a.at = "load" ->
                  /\ adding' = [adding EXCEPT ![t].at = "store",
                                              ![t].loaded = filled_points]
                  /\ UNCHANGED <<times, values, filled_points, raised, since>>
             [] a.at = "store" ->
                  /\ filled_points' = a.loaded + 1
                  /\ since' = [since EXCEPT !.returned = @ + 1]
                  /\ raised' = FALSE
                  /\ goto("idle")
                  /\ UNCHANGED <<times, values>>
        /\ UNCHANGED raceFrame

\* What the offline program with add_point in statements leaves alone.
raceOffFrame ==
    <<retry_dialog_open, exc, elapsed, command, response, sock, unread,
      command_table, retries, ack, emits, cause, recov, sockErr, escErr,
      aborted, wire, handlerVars, readVars, logVars>>

\* run_offline line 857: the loop thread calls
\* self.parent.spinning_history.add_point(datetime.now(), np.ma.masked).
RaceMaskCall ==
    /\ pc = "off_mask"
    /\ add_point_call("loop", now, Masked)
    /\ pc' = "off_add"
    /\ UNCHANGED <<running, queue, chan, slots, uipc, history, polls,
                   nEmitted, delivered, nEnq, deq, n, raceOffFrame>>

\* A statement of that call.  When it has returned run_offline returns to
\* run(); an exception leaves run().
RaceMaskStatement ==
    /\ pc = "off_add"
    /\ add_point_statement("loop")
    /\ pc' = IF adding'["loop"].at # "idle" THEN pc
             ELSE IF raised' THEN "done" ELSE "run_top"
    /\ history' = IF adding'["loop"].at = "idle" /\ ~raised'
                  THEN Append(history, "masked") ELSE history
    /\ UNCHANGED <<running, queue, chan, slots, uipc, polls, nEmitted,
                   delivered, nEnq, deq, n, raceOffFrame>>

\* got_status line 65 for the oldest queued signal: the UI thread calls
\* self.spinning_history.add_point(status[1], int(status[0].spin)).
RaceGotStatusCall ==
    /\ uipc = "idle"
    /\ chan # <<>>
    /\ Head(chan).kind = "got_status"
    /\ add_point_call("ui", Head(chan).time,
                      [data |-> Head(chan).spin, mask |-> FALSE])
    /\ uipc' = "got_status"
    /\ delivered' = Append(delivered, Head(chan).id)
    /\ chan' = Tail(chan)
    /\ UNCHANGED <<pc, running, queue, slots, history, polls, nEmitted,
                   nEnq, deq, n, raceOffFrame>>

\* A statement of that call; afterwards the UI thread is back in its event
\* loop.
RaceGotStatusStatement ==
    /\ uipc = "got_status"
    /\ add_point_statement("ui")
    /\ uipc' = IF adding'["ui"].at = "idle" THEN "idle" ELSE uipc
    /\ history' = IF adding'["ui"].at = "idle" /\ ~raised'
                  THEN Append(history, "value") ELSE history
    /\ UNCHANGED <<pc, running, queue, chan, slots, polls, nEmitted,
                   delivered, nEnq, deq, n, raceOffFrame>>

RaceNext ==
    \/ OffRunCheck
    \/ OffCheck
    \/ OffCycle
    \/ RaceMaskCall
    \/ RaceMaskStatement
    \/ UIStart
    \/ UIConnectStatus
    \/ UIConnectReconnect
    \/ RaceGotStatusCall
    \/ RaceGotStatusStatement
    \/ UserCommand
    \/ UserQuit
    \/ UICleanupWait
    \/ Tick

RaceSpec == OfflineInit /\ [][RaceNext]_vars

\* ------------------------------------------------------------ race claims
\* C27: whenever no thread is inside add_point, filled_points has advanced
\* since the last reallocation by the number of add_point calls that have
\* returned since then.
C27_NoAddPointLost ==
    (\A t \in Threads : adding[t].at = "idle") =>
        filled_points = since.filled + since.returned

====
